---- MODULE Spec2Model ----
(***************************************************************************)
(* Crop yield prediction API (src/summative/api/app.py).                   *)
(*                                                                         *)
(* The model covers the one-time load of the model package, the            *)
(* predict-yield handler CropYieldPredictor.post, the preprocessing        *)
(* pipeline transform_agricultural_input and the confidence heuristic      *)
(* calculate_prediction_confidence.                                        *)
(*                                                                         *)
(* Text values are sequences of one-character strings, so that strip,      *)
(* upper and title act on them as the Python string methods do.            *)
(* Predictions are integers in units of 0.0001; the reported yield is in   *)
(* units of 0.001 (three decimals).  Rainfall and temperature are in       *)
(* tenths, days are whole numbers.                                         *)
(***************************************************************************)
EXTENDS Integers, Sequences, FiniteSets, TLC

VARIABLES
    workload,                   \* which family of requests and artifacts the run draws from
    server,                     \* "starting", "serving" or "failed" (module import, lines 77-86)
    complete_model_data,        \* line 78
    trained_ml_model,           \* line 80
    geographic_region_encoder,  \* line 81
    soil_type_encoder,          \* line 82
    crop_variety_encoder,       \* line 83
    weather_condition_encoder,  \* line 84
    pc,                         \* position of each request thread inside post
    agricultural_input_data,    \* line 327, the request payload of each thread
    processed_dataframe,        \* line 213, local to transform_agricultural_input
    raw_prediction_result,      \* line 355
    response,                   \* what post returned: [status, body]
    calls                       \* collaborators invoked for the current request, in order

vars == <<workload, server, complete_model_data, trained_ml_model,
          geographic_region_encoder, soil_type_encoder, crop_variety_encoder,
          weather_condition_encoder, pc, agricultural_input_data,
          processed_dataframe, raw_prediction_result, response, calls>>

globals == <<complete_model_data, trained_ml_model, geographic_region_encoder,
             soil_type_encoder, crop_variety_encoder, weather_condition_encoder>>

-----------------------------------------------------------------------------
(* Bounds of the model.                                                    *)

\* Most whitespace characters put before or after a text value.
MaxPad == 1
\* Raw predictions lie within Margin units (of 0.0001) of 0, of 10 and of 20.
Margin == 6
\* Request threads of the concurrent workload (flask runs threaded=True).
NumThreads == 2

-----------------------------------------------------------------------------
(* Python string methods.                                                  *)

Lowers == <<"a","b","c","d","e","f","g","h","i","j","k","l","m",
            "n","o","p","q","r","s","t","u","v","w","x","y","z">>
Uppers == <<"A","B","C","D","E","F","G","H","I","J","K","L","M",
            "N","O","P","Q","R","S","T","U","V","W","X","Y","Z">>

IsLower(c) == \E i \in 1..Len(Lowers) : Lowers[i] = c
IsUpper(c) == \E i \in 1..Len(Uppers) : Uppers[i] = c
IsCased(c) == IsLower(c) \/ IsUpper(c)
IsSpace(c) == c \in {" ", "\t"}

UpperChar(c) == IF IsLower(c) THEN Uppers[CHOOSE i \in 1..Len(Lowers) : Lowers[i] = c] ELSE c
LowerChar(c) == IF IsUpper(c) THEN Lowers[CHOOSE i \in 1..Len(Uppers) : Uppers[i] = c] ELSE c

\* str.upper()
StrUpper(s) == [i \in 1..Len(s) |-> UpperChar(s[i])]

\* str.strip(): leading and trailing whitespace removed
StrStrip(s) ==
    IF \A i \in 1..Len(s) : IsSpace(s[i]) THEN <<>>
    ELSE LET first == CHOOSE i \in 1..Len(s) :
                          ~IsSpace(s[i]) /\ \A j \in 1..(i - 1) : IsSpace(s[j])
             last  == CHOOSE i \in 1..Len(s) :
                          ~IsSpace(s[i]) /\ \A j \in (i + 1)..Len(s) : IsSpace(s[j])
         IN  SubSeq(s, first, last)

\* str.title(): a cased character is upper-cased when the character before
\* it is not cased (or it is the first), lower-cased otherwise
StrTitle(s) ==
    [i \in 1..Len(s) |->
        IF ~IsCased(s[i]) THEN s[i]
        ELSE IF i > 1 /\ IsCased(s[i - 1]) THEN LowerChar(s[i]) ELSE UpperChar(s[i])]

-----------------------------------------------------------------------------
(* The model package.  The encoders are sklearn LabelEncoders: classes_ is *)
(* the sorted vocabulary and transform gives a value's 0-based position,   *)
(* raising ValueError for a value that is not in it.  The vocabularies are *)
(* the ones the input schema documents (lines 93, 99, 105, 140).           *)

RegionClasses ==
    <<<<"C","e","n","t","r","a","l">>,
       <<"E","a","s","t">>,
       <<"N","o","r","t","h">>,
       <<"S","o","u","t","h">>,
       <<"W","e","s","t">>>>
SoilClasses ==
    <<<<"C","l","a","y">>,
       <<"L","o","a","m">>,
       <<"P","e","a","t">>,
       <<"S","a","n","d","y">>,
       <<"S","i","l","t">>>>
CropClasses ==
    <<<<"B","a","r","l","e","y">>,
       <<"C","o","r","n">>,
       <<"R","i","c","e">>,
       <<"S","o","y","b","e","a","n">>,
       <<"W","h","e","a","t">>>>
WeatherClasses ==
    <<<<"C","l","o","u","d","y">>,
       <<"M","i","l","d">>,
       <<"R","a","i","n","y">>,
       <<"S","t","o","r","m","y">>,
       <<"S","u","n","n","y">>>>

\* .map() leaves NaN where the table has no entry (lines 238, 246)
NaN == -1

\* the name the package may carry, and the default of line 365
PackageName == "LinearRegression"
DefaultModelVersion == "AgriTech ML Model v2.0"

\* The predictor is opaque: a bounded family of regressors stands for it.
\* A regressor scores intercept + Fertilizer_Used + Region code, or raises.
T10 == 100000
T20 == 200000
RawBand == (0 - Margin)..Margin \cup (T10 - Margin)..(T10 + Margin)
               \cup (T20 - Margin)..(T20 + Margin)

Regressor(i, r) == [unbound |-> FALSE, intercept |-> i, raises |-> r]
UnboundModel == [unbound |-> TRUE, intercept |-> 0, raises |-> "none"]
UnboundData == [unbound |-> TRUE]

Package(m, named) ==
    LET base == [model |-> m, region_encoder |-> RegionClasses,
                 soil_encoder |-> SoilClasses, crop_encoder |-> CropClasses,
                 weather_encoder |-> WeatherClasses]
    IN  IF named
        THEN [k \in DOMAIN base \cup {"model_name"} |->
                 IF k = "model_name" THEN PackageName ELSE base[k]]
        ELSE base

\* what optimal_crop_yield_model.pkl.gz may hold
Packages(w) ==
    IF w = "outputs"
    THEN {Package(Regressor(i, "none"), n) : i \in RawBand, n \in BOOLEAN}
    ELSE IF w = "concurrent"
    THEN {Package(Regressor(T10 - 2, "none"), TRUE), Package(Regressor(0, "Exception"), TRUE)}
    ELSE {Package(Regressor(i, r), TRUE) :
             i \in {T10 + T10 + T10}, r \in {"none", "ValueError", "Exception"}}
         \cup {Package(Regressor(T10 + 3, "none"), FALSE)}

\* dict.get(key, default)
DictGet(d, k, default) == IF k \in DOMAIN d THEN d[k] ELSE default

\* LabelEncoder.transform on one value
LabelTransform(classes, v) ==
    IF \E i \in 1..Len(classes) : classes[i] = v
    THEN [ok |-> TRUE, code |-> (CHOOSE i \in 1..Len(classes) : classes[i] = v) - 1]
    ELSE [ok |-> FALSE, code |-> NaN]

\* trained_ml_model.predict(feature_matrix)[0]
Predict(m, fv) ==
    IF m.raises # "none"
    THEN [raised |-> m.raises, value |-> 0]
    ELSE [raised |-> "none",
          value |-> m.intercept + fv.row["Fertilizer_Used"] + fv.row["Region"]]

-----------------------------------------------------------------------------
(* Requests.  A payload is the parsed JSON object: its keys in the order   *)
(* they were sent and the value of each key.                               *)

\* lines 339-340
required_fields ==
    <<"Region", "Soil_Type", "Crop", "Rainfall_mm", "Temperature_Celsius",
      "Fertilizer_Used", "Irrigation_Used", "Weather_Condition", "Days_to_Harvest">>
\* line 218
text_features_to_standardize == <<"Region", "Soil_Type", "Crop", "Weather_Condition">>
\* lines 253-256
required_feature_columns ==
    <<"Region", "Soil_Type", "Crop", "Rainfall_mm", "Temperature_Celsius",
      "Fertilizer_Used", "Irrigation_Used", "Weather_Condition", "Days_to_Harvest">>
BooleanFeatures == <<"Fertilizer_Used", "Irrigation_Used">>
NumericFeatures == <<"Rainfall_mm", "Temperature_Celsius", "Days_to_Harvest">>

Range(q) == {q[i] : i \in 1..Len(q)}
Reverse(q) == [i \in 1..Len(q) |-> q[Len(q) + 1 - i]]

TRUEText == <<"T","R","U","E">>
FALSEText == <<"F","A","L","S","E">>

\* the example request of the handler's documentation (lines 310-320)
ExampleRow ==
    [Region |-> <<"N","o","r","t","h">>, Soil_Type |-> <<"L","o","a","m">>, Crop |-> <<"W","h","e","a","t">>,
     Rainfall_mm |-> 4505, Temperature_Celsius |-> 225,
     Fertilizer_Used |-> TRUEText, Irrigation_Used |-> FALSEText,
     Weather_Condition |-> <<"S","u","n","n","y">>, Days_to_Harvest |-> 120]

Payload(order, row) == [order |-> order, row |-> row]
NoPayload == Payload(<<>>, <<>>)
\* the row with one value replaced
With(row, k, v) == [c \in DOMAIN row |-> IF c = k THEN v ELSE row[c]]
\* the payload that sends only the keys of `present`, in schema order
Only(row, present) ==
    Payload(SelectSeq(required_fields, LAMBDA k : k \in present),
            [k \in present |-> row[k]])

\* a text value written in another letter case and with whitespace around it
Pad(n) == [i \in 1..n |-> " "]
Styled(w, style) ==
    CASE style = "lower" -> [i \in 1..Len(w) |-> LowerChar(w[i])]
      [] style = "upper" -> [i \in 1..Len(w) |-> UpperChar(w[i])]
      [] style = "title" -> [i \in 1..Len(w) |->
                                IF i = 1 THEN UpperChar(w[i]) ELSE LowerChar(w[i])]
      [] style = "swap"  -> [i \in 1..Len(w) |->
                                IF IsUpper(w[i]) THEN LowerChar(w[i]) ELSE UpperChar(w[i])]
      [] OTHER -> w
Variants(w) ==
    {Pad(l) \o Styled(w, st) \o Pad(r) :
        l \in 0..MaxPad, r \in 0..MaxPad, st \in {"asis", "lower", "upper", "title", "swap"}}

ClassesOf(f) ==
    CASE f = "Region" -> RegionClasses
      [] f = "Soil_Type" -> SoilClasses
      [] f = "Crop" -> CropClasses
      [] f = "Weather_Condition" -> WeatherClasses

\* text that is in no vocabulary, and a word of another field's vocabulary
Strangers(f) ==
    {<<"A","t","l","a","n","t","i","s">>, <<>>, <<" ">>, <<"N","o","r"," ","t","h">>, <<"N","o","r","t","h","1">>,
     IF f = "Region" THEN <<"L","o","a","m">> ELSE <<"N","o","r","t","h">>}
TextInputs(f) ==
    UNION {Variants(ClassesOf(f)[i]) : i \in 1..Len(ClassesOf(f))} \cup Strangers(f)

BooleanInputs ==
    Variants(<<"t","r","u","e">>) \cup Variants(<<"f","a","l","s","e">>)
        \cup {<<"y","e","s">>, <<>>, <<"1">>, <<"T"," ","R","U","E">>, <<"t","r","u","e","e">>, <<"\t","t","r","u","e">>}

\* values inside and outside the ranges the schema declares (lines 107-149)
NumericInputs(f) ==
    CASE f = "Rainfall_mm" -> {4505, 0 - 50}
      [] f = "Temperature_Celsius" -> {225, 600, 0 - 200}
      [] f = "Days_to_Harvest" -> {120, 10, 400}

FieldInputs(f) ==
    IF f \in Range(text_features_to_standardize) THEN TextInputs(f)
    ELSE IF f \in Range(BooleanFeatures) THEN BooleanInputs
    ELSE NumericInputs(f)

\* every subset of the required keys, the empty body included
MissingRequests == {Only(ExampleRow, S) : S \in SUBSET Range(required_fields)}
\* the example with one value replaced by any input of that field
OneFieldRequests ==
    UNION {{Payload(required_fields, With(ExampleRow, f, v)) : v \in FieldInputs(f)} :
              f \in Range(required_fields)}
\* good and bad values of the text and boolean fields in every combination
MixedRequests ==
    {Payload(required_fields,
             [ExampleRow EXCEPT !.Region = r, !.Soil_Type = s, !.Crop = c,
                                !.Weather_Condition = w, !.Fertilizer_Used = fu,
                                !.Irrigation_Used = iu]) :
        r \in {<<" ","n","o","r","t","h"," ">>, <<"A","t","l","a","n","t","i","s">>}, s \in {<<"C","L","A","Y">>, <<"L","o","a","m","1">>},
        c \in {<<"r","i","c","e">>, <<"R","y","e">>}, w \in {<<"S","u","n","n","y"," ">>, <<"F","o","g","g","y">>},
        fu \in {<<" ","T","r","u","e"," ">>, <<"m","a","y","b","e">>}, iu \in {<<"f","a","l","s","e">>, <<>>}}
\* keys sent in another order, with a key the schema does not know
ExtraRow ==
    [k \in DOMAIN ExampleRow \cup {"Notes"} |->
        CASE k = "Notes" -> <<"n","/","a">>
          [] k = "Region" -> <<" ","w","e","s","t"," ">>
          [] k = "Fertilizer_Used" -> <<"f","a","l","s","e">>
          [] k = "Rainfall_mm" -> 0 - 50
          [] k = "Temperature_Celsius" -> 600
          [] k = "Days_to_Harvest" -> 400
          [] OTHER -> ExampleRow[k]]
ShuffledRequest == Payload(<<"Notes">> \o Reverse(required_fields), ExtraRow)

Requests(w) ==
    CASE w = "inputs" -> MissingRequests \cup OneFieldRequests \cup MixedRequests
      [] w = "outputs" ->
            {Payload(required_fields, ExampleRow), ShuffledRequest,
             Payload(required_fields, With(ExampleRow, "Region", <<"c","e","n","t","r","a","l">>))}
      [] w = "concurrent" ->
            {Payload(required_fields, ExampleRow), ShuffledRequest,
             Only(ExampleRow, Range(required_fields) \ {"Crop"}),
             Payload(required_fields, With(ExampleRow, "Region", <<"A","t","l","a","n","t","i","s">>)),
             Payload(required_fields, With(ExampleRow, "Irrigation_Used", <<"m","a","y","b","e">>))}

Threads(w) == IF w = "concurrent" THEN 1..NumThreads ELSE {1}

-----------------------------------------------------------------------------
(* transform_agricultural_input, stage by stage.                           *)

\* line 213: a one-row frame whose columns are the payload's keys
NewDataFrame(p) == [columns |-> p.order, row |-> p.row]
NoFrame == [columns |-> <<>>, row |-> <<>>]
SetColumn(df, c, v) == [df EXCEPT !.row = With(df.row, c, v)]

\* lines 218-220: .str.strip().str.title() on the four text columns
StandardizedStripOnly(df) ==
    [df EXCEPT !.row = [c \in DOMAIN df.row |->
        IF c \in Range(text_features_to_standardize)
        THEN StrStrip(df.row[c]) ELSE df.row[c]]]
Standardized(df) ==
    [df EXCEPT !.row = [c \in DOMAIN df.row |->
        IF c \in Range(text_features_to_standardize)
        THEN StrTitle(StrStrip(df.row[c])) ELSE df.row[c]]]

\* lines 224-227: the four encoders in the order they are applied
EncoderName(c) ==
    CASE c = "Region" -> "geographic_region_encoder.transform"
      [] c = "Soil_Type" -> "soil_type_encoder.transform"
      [] c = "Crop" -> "crop_variety_encoder.transform"
      [] c = "Weather_Condition" -> "weather_condition_encoder.transform"
EncoderOf(c) ==
    CASE c = "Region" -> geographic_region_encoder
      [] c = "Soil_Type" -> soil_type_encoder
      [] c = "Crop" -> crop_variety_encoder
      [] c = "Weather_Condition" -> weather_condition_encoder
EncodeOrder == <<"Region", "Soil_Type", "Crop", "Weather_Condition">>

\* an exception: its class and str(exception)
Raise(type, text, args) == [type |-> type, message |-> [text |-> text, args |-> args]]
NoException == Raise("none", "", <<>>)

\* lines 223-229: encode column after column; the first unseen label raises
\* ValueError, which is raised again with a prefix, and ends the stage
RECURSIVE EncodeFrom(_, _)
EncodeFrom(df, i) ==
    IF i > Len(EncodeOrder)
    THEN [raised |-> NoException, df |-> df, calls |-> <<>>]
    ELSE LET c == EncodeOrder[i]
             r == LabelTransform(EncoderOf(c), df.row[c])
         IN  IF ~r.ok
             THEN [raised |-> Raise("ValueError",
                                    "Categorical encoding failed: y contains previously unseen labels",
                                    <<df.row[c]>>),
                   df |-> df, calls |-> <<EncoderName(c)>>]
             ELSE LET rest == EncodeFrom(SetColumn(df, c, r.code), i + 1)
                  IN  [rest EXCEPT !.calls = <<EncoderName(c)>> \o @]

\* sklearn's transform reads classes_ and leaves the encoder as it is
EncoderAfterFitTransform(classes, v) == <<v>>
EncoderAfterTransform(classes, v) == classes

\* lines 231-247: astype(str).str.upper().str.strip().map({'TRUE': 1, 'FALSE': 0})
BooleanMappedNoStrip(v) ==
    LET n == StrUpper(v)
    IN  IF n = TRUEText THEN 1 ELSE IF n = FALSEText THEN 0 ELSE NaN
BooleanMapped(v) ==
    LET n == StrStrip(StrUpper(v))
    IN  IF n = TRUEText THEN 1 ELSE IF n = FALSEText THEN 0 ELSE NaN

\* lines 233-250
BoolStageFirstOnly(df) ==
    LET fu == BooleanMapped(df.row["Fertilizer_Used"])
        iu == BooleanMapped(df.row["Irrigation_Used"])
        out == SetColumn(SetColumn(df, "Fertilizer_Used", fu), "Irrigation_Used", iu)
    IN  IF fu = NaN
        THEN [raised |-> Raise("ValueError",
                               "Boolean features must be 'TRUE' or 'FALSE' (case insensitive)",
                               <<>>),
              df |-> out]
        ELSE [raised |-> NoException, df |-> out]
BoolStage(df) ==
    LET fu == BooleanMapped(df.row["Fertilizer_Used"])
        iu == BooleanMapped(df.row["Irrigation_Used"])
        out == SetColumn(SetColumn(df, "Fertilizer_Used", fu), "Irrigation_Used", iu)
    IN  IF fu = NaN \/ iu = NaN
        THEN [raised |-> Raise("ValueError",
                               "Boolean features must be 'TRUE' or 'FALSE' (case insensitive)",
                               <<>>),
              df |-> out]
        ELSE [raised |-> NoException, df |-> out]

\* lines 253-260: the nine model columns, in the model's order
FeatureMatrixUnselected(df) == df
FeatureMatrix(df) ==
    [columns |-> required_feature_columns,
     row |-> [c \in Range(required_feature_columns) |-> df.row[c]]]

-----------------------------------------------------------------------------
(* calculate_prediction_confidence and the handler's payloads.             *)

\* lines 275-280
calculate_prediction_confidence(prediction_value) ==
    IF 0 <= prediction_value /\ prediction_value <= T10 THEN "High"
    ELSE IF T10 < prediction_value /\ prediction_value <= T20 THEN "Medium"
    ELSE "Low"

\* line 357: max(0, float(raw_prediction_result))
Unclamped(raw) == raw
Clamped(raw) == IF raw > 0 THEN raw ELSE 0

\* line 363: round(final_prediction, 3), in units of 0.001.  A value half way
\* between two multiples goes to either, as the binary value of the float
\* decides (round(10.0005, 3) = 10.001, round(20.0005, 3) = 20.0).
Round3Truncated(v) == {v \div 10}
Round3(v) ==
    LET q == v \div 10
        r == v % 10
    IN  IF r < 5 THEN {q} ELSE IF r > 5 THEN {q + 1} ELSE {q, q + 1}

\* line 366: elapsed milliseconds, rounded to 2 decimals, in units of 0.01
ElapsedMs == {0, 1580}

HTTP_OK == 200
HTTP_BAD_REQUEST == 400
HTTP_UNPROCESSABLE == 422
HTTP_SERVER_ERROR == 500

Text(t) == [text |-> t, args |-> <<>>]
Reply(status, body) == [status |-> status, body |-> body]
NoResponse == Reply(0, [none |-> TRUE])

\* lines 330-337
MissingDataResponse ==
    Reply(HTTP_BAD_REQUEST,
          [error_message |-> Text("No input data provided in request body"),
           error_code |-> "MISSING_DATA",
           suggestions |-> <<Text("Include all required agricultural parameters in JSON format"),
                             Text("Refer to the API documentation for input schema")>>])

\* line 342
MissingFieldsAny(p) == SelectSeq(required_fields, LAMBDA field : field \notin DOMAIN p.row
                                                     \/ field = "Crop")
MissingFields(p) == SelectSeq(required_fields, LAMBDA field : field \notin DOMAIN p.row)

\* lines 344-351
MissingFieldsResponse(missing_fields) ==
    Reply(HTTP_BAD_REQUEST,
          [error_message |-> [text |-> "Missing required fields: ", args |-> missing_fields],
           error_code |-> "MISSING_FIELDS",
           suggestions |-> <<[text |-> "Include the following fields: ", args |-> missing_fields],
                             Text("Check the API documentation for complete field requirements")>>])

\* lines 371-380
ValidationErrorResponse(e) ==
    Reply(HTTP_UNPROCESSABLE,
          [error_message |-> [text |-> "Input validation failed: " \o e.message.text,
                              args |-> e.message.args],
           error_code |-> "VALIDATION_ERROR",
           suggestions |-> <<Text("Check that categorical values are supported by the model"),
                             Text("Ensure boolean fields use TRUE/FALSE values"),
                             Text("Verify numerical ranges are realistic")>>])

\* lines 382-391
ProcessingErrorResponse(e) ==
    Reply(HTTP_SERVER_ERROR,
          [error_message |-> [text |-> "Prediction processing failed: " \o e.message.text,
                              args |-> e.message.args],
           error_code |-> "PROCESSING_ERROR",
           suggestions |-> <<Text("Verify input data format and values"),
                             Text("Contact support if the error persists"),
                             Text("Check API documentation for troubleshooting")>>])

\* lines 371-391: the except clauses, tried in order
IsValueError(type) == type = "ValueError"
CaughtValueErrorOnly(e) ==
    IF IsValueError(e.type) THEN ValidationErrorResponse(e)
    ELSE Reply(HTTP_SERVER_ERROR, [message |-> Text("Internal Server Error")])
Caught(e) ==
    IF IsValueError(e.type) THEN ValidationErrorResponse(e) ELSE ProcessingErrorResponse(e)

\* lines 362-367
SuccessResponse(yield, label, ms) ==
    Reply(HTTP_OK,
          [predicted_yield_tons_per_hectare |-> yield,
           confidence_level |-> label,
           model_version |-> DictGet(complete_model_data, "model_name", DefaultModelVersion),
           processing_time_ms |-> ms])

-----------------------------------------------------------------------------
(* The process: the load at import, then request threads running post.     *)

Init ==
    /\ workload \in {"inputs", "outputs", "concurrent"}
    /\ server = "starting"
    /\ complete_model_data = UnboundData
    /\ trained_ml_model = UnboundModel
    /\ geographic_region_encoder = <<>>
    /\ soil_type_encoder = <<>>
    /\ crop_variety_encoder = <<>>
    /\ weather_condition_encoder = <<>>
    /\ pc = [t \in Threads(workload) |-> "idle"]
    /\ agricultural_input_data = [t \in Threads(workload) |-> NoPayload]
    /\ processed_dataframe = [t \in Threads(workload) |-> NoFrame]
    /\ raw_prediction_result = [t \in Threads(workload) |-> 0]
    /\ response = [t \in Threads(workload) |-> NoResponse]
    /\ calls = [t \in Threads(workload) |-> <<>>]

locals == <<pc, agricultural_input_data, processed_dataframe,
            raw_prediction_result, response, calls>>

\* lines 68-71 and 78-86: the package is read and its parts are bound
LoadPackageOf(pkg) ==
    /\ server = "starting"
    /\ complete_model_data' = pkg
    /\ trained_ml_model' = pkg["model"]
    /\ geographic_region_encoder' = pkg["region_encoder"]
    /\ soil_type_encoder' = pkg["soil_encoder"]
    /\ crop_variety_encoder' = pkg["crop_encoder"]
    /\ weather_condition_encoder' = pkg["weather_encoder"]
    /\ server' = "serving"
    /\ UNCHANGED <<workload, locals>>

\* lines 72-75: the load raises and the import of the module fails
LoadFailsWith(error) ==
    /\ server = "starting"
    /\ server' = "failed"
    /\ UNCHANGED <<workload, globals, locals>>

\* post returns with `reply` (or with what the except clauses make of `e`)
Return(t, reply) ==
    /\ response' = [response EXCEPT ![t] = reply]
    /\ pc' = [pc EXCEPT ![t] = "done"]

\* lines 327-353: the payload is read, checked for emptiness and for the
\* required keys, and handed to transform_agricultural_input
BeginAt(t, p) ==
    /\ server = "serving"
    /\ pc[t] = "idle"
    /\ agricultural_input_data' = [agricultural_input_data EXCEPT ![t] = p]
    /\ IF DOMAIN p.row = {}
       THEN Return(t, MissingDataResponse) /\ UNCHANGED calls
       ELSE IF MissingFields(p) # <<>>
       THEN Return(t, MissingFieldsResponse(MissingFields(p))) /\ UNCHANGED calls
       ELSE /\ pc' = [pc EXCEPT ![t] = "standardize"]
            /\ calls' = [calls EXCEPT ![t] = <<"transform_agricultural_input">>]
            /\ UNCHANGED response
    /\ UNCHANGED <<workload, server, globals, processed_dataframe, raw_prediction_result>>

\* lines 212-220
StandardizeAt(t) ==
    /\ pc[t] = "standardize"
    /\ processed_dataframe' =
          [processed_dataframe EXCEPT ![t] = Standardized(NewDataFrame(agricultural_input_data[t]))]
    /\ pc' = [pc EXCEPT ![t] = "encode"]
    /\ UNCHANGED <<workload, server, globals, agricultural_input_data,
                   raw_prediction_result, response, calls>>

\* lines 223-229 (and 371-380 when the stage raises)
EncodeAt(t) ==
    /\ pc[t] = "encode"
    /\ LET r == EncodeFrom(processed_dataframe[t], 1)
       IN  /\ processed_dataframe' = [processed_dataframe EXCEPT ![t] = r.df]
           /\ calls' = [calls EXCEPT ![t] = @ \o r.calls]
           /\ IF r.raised.type # "none"
              THEN Return(t, Caught(r.raised))
              ELSE pc' = [pc EXCEPT ![t] = "booleans"] /\ UNCHANGED response
    /\ geographic_region_encoder' =
          EncoderAfterTransform(geographic_region_encoder, processed_dataframe[t].row["Region"])
    /\ UNCHANGED <<workload, server, complete_model_data, trained_ml_model,
                   soil_type_encoder, crop_variety_encoder, weather_condition_encoder,
                   agricultural_input_data, raw_prediction_result>>

\* lines 231-250 (and 371-380 when the check raises)
MapBooleansAt(t) ==
    /\ pc[t] = "booleans"
    /\ LET r == BoolStage(processed_dataframe[t])
       IN  /\ processed_dataframe' = [processed_dataframe EXCEPT ![t] = r.df]
           /\ IF r.raised.type # "none"
              THEN Return(t, Caught(r.raised))
              ELSE pc' = [pc EXCEPT ![t] = "assemble"] /\ UNCHANGED response
    /\ UNCHANGED <<workload, server, globals, agricultural_input_data,
                   raw_prediction_result, calls>>

\* lines 253-260: the feature matrix is returned to post
AssembleAt(t) ==
    /\ pc[t] = "assemble"
    /\ processed_dataframe' =
          [processed_dataframe EXCEPT ![t] = FeatureMatrix(processed_dataframe[t])]
    /\ pc' = [pc EXCEPT ![t] = "predict"]
    /\ UNCHANGED <<workload, server, globals, agricultural_input_data,
                   raw_prediction_result, response, calls>>

\* line 355 (and 371-391 when the predictor raises)
CallPredictorAt(t) ==
    /\ pc[t] = "predict"
    /\ calls' = [calls EXCEPT ![t] = Append(@, "trained_ml_model.predict")]
    /\ LET r == Predict(trained_ml_model, processed_dataframe[t])
       IN  IF r.raised # "none"
           THEN /\ Return(t, Caught(Raise(r.raised, "the predictor failed", <<>>)))
                /\ UNCHANGED raw_prediction_result
           ELSE /\ raw_prediction_result' = [raw_prediction_result EXCEPT ![t] = r.value]
                /\ pc' = [pc EXCEPT ![t] = "respond"]
                /\ UNCHANGED response
    /\ UNCHANGED <<workload, server, globals, agricultural_input_data, processed_dataframe>>

\* lines 357-369
RespondAt(t) ==
    /\ pc[t] = "respond"
    /\ LET final_prediction == Clamped(raw_prediction_result[t])
           confidence_assessment == calculate_prediction_confidence(final_prediction)
       IN  \E yield \in Round3(final_prediction), ms \in ElapsedMs :
              Return(t, SuccessResponse(yield, confidence_assessment, ms))
    /\ UNCHANGED <<workload, server, globals, agricultural_input_data,
                   processed_dataframe, raw_prediction_result, calls>>

\* the response is sent; the thread is free for the next request
FinishAt(t) ==
    /\ pc[t] = "done"
    /\ pc' = [pc EXCEPT ![t] = "idle"]
    /\ agricultural_input_data' = [agricultural_input_data EXCEPT ![t] = NoPayload]
    /\ processed_dataframe' = [processed_dataframe EXCEPT ![t] = NoFrame]
    /\ raw_prediction_result' = [raw_prediction_result EXCEPT ![t] = 0]
    /\ response' = [response EXCEPT ![t] = NoResponse]
    /\ calls' = [calls EXCEPT ![t] = <<>>]
    /\ UNCHANGED <<workload, server, globals>>

LoadPackage == \E pkg \in Packages(workload) : LoadPackageOf(pkg)
LoadFails == \E error \in {"FileNotFoundError", "Exception"} : LoadFailsWith(error)
Begin ==
    \E t \in Threads(workload) :
        /\ pc[t] = "idle"
        /\ \E p \in Requests(workload) : BeginAt(t, p)
Standardize == \E t \in Threads(workload) : StandardizeAt(t)
Encode == \E t \in Threads(workload) : EncodeAt(t)
MapBooleans == \E t \in Threads(workload) : MapBooleansAt(t)
Assemble == \E t \in Threads(workload) : AssembleAt(t)
CallPredictor == \E t \in Threads(workload) : CallPredictorAt(t)
Respond == \E t \in Threads(workload) : RespondAt(t)
Finish == \E t \in Threads(workload) : FinishAt(t)

Next ==
    \/ LoadPackage
    \/ LoadFails
    \/ Begin
    \/ Standardize
    \/ Encode
    \/ MapBooleans
    \/ Assemble
    \/ CallPredictor
    \/ Respond
    \/ Finish

Spec == Init /\ [][Next]_vars

-----------------------------------------------------------------------------
(* Vocabulary of the properties.                                           *)

Done(t) == pc[t] = "done"
Status(t) == response[t].status
Body(t) == response[t].body
ErrorKeys == {"error_message", "error_code", "suggestions"}
ResultKeys == {"predicted_yield_tons_per_hectare", "confidence_level",
               "model_version", "processing_time_ms"}
IsError(t, code) ==
    /\ Done(t)
    /\ "error_code" \in DOMAIN Body(t)
    /\ Body(t).error_code = code
IsSuccess(t) == Done(t) /\ Status(t) = HTTP_OK
SentRow(t) == agricultural_input_data[t].row
NineKeys ==
    {"Region", "Soil_Type", "Crop", "Rainfall_mm", "Temperature_Celsius",
     "Fertilizer_Used", "Irrigation_Used", "Weather_Condition", "Days_to_Harvest"}
HasAllKeys(t) == NineKeys \subseteq DOMAIN SentRow(t)
TextFields == {"Region", "Soil_Type", "Crop", "Weather_Condition"}
BooleanFields == {"Fertilizer_Used", "Irrigation_Used"}
EncoderCalls ==
    {"geographic_region_encoder.transform", "soil_type_encoder.transform",
     "crop_variety_encoder.transform", "weather_condition_encoder.transform"}
PredictorCalled(t) == "trained_ml_model.predict" \in Range(calls[t])
InVocabulary(f, v) == StrTitle(StrStrip(v)) \in Range(ClassesOf(f))
Mappable(v) == StrStrip(StrUpper(v)) \in {TRUEText, FALSEText}
BooleanMessage ==
    "Input validation failed: Boolean features must be 'TRUE' or 'FALSE' (case insensitive)"
CategoricalMessage ==
    "Input validation failed: Categorical encoding failed: y contains previously unseen labels"

-----------------------------------------------------------------------------
(* C1 *)

\* C1: a non-empty body that lacks one or more of the nine required keys is
\* answered 400 MISSING_FIELDS, the message lists the absent keys and only
\* them, and neither transform_agricultural_input nor the predictor ran.
C1_MissingFieldsListed ==
    \A t \in Threads(workload) :
        (Done(t) /\ DOMAIN SentRow(t) # {} /\ ~HasAllKeys(t)) =>
            /\ Status(t) = HTTP_BAD_REQUEST
            /\ IsError(t, "MISSING_FIELDS")
            /\ Range(Body(t).error_message.args) = NineKeys \ DOMAIN SentRow(t)
            /\ Len(Body(t).error_message.args) = Cardinality(NineKeys \ DOMAIN SentRow(t))
            /\ calls[t] = <<>>

C1_Witness ==
    \E t \in Threads(workload) :
        /\ IsError(t, "MISSING_FIELDS")
        /\ Cardinality(DOMAIN SentRow(t)) >= 2
        /\ Len(Body(t).error_message.args) >= 2

-----------------------------------------------------------------------------
(* C2 *)

\* C2: when the predictor call raises, whatever the exception, the answer is
\* 500 PROCESSING_ERROR; VALIDATION_ERROR comes only from the pipeline, so a
\* request whose predictor was called never ends in VALIDATION_ERROR.
C2_PredictorFailureIsProcessingError ==
    \A t \in Threads(workload) :
        (Done(t) /\ PredictorCalled(t) /\ ~IsSuccess(t)) =>
            /\ Status(t) = HTTP_SERVER_ERROR
            /\ IsError(t, "PROCESSING_ERROR")

-----------------------------------------------------------------------------
(* C3 *)

UnmappableBoolean(t) ==
    HasAllKeys(t) /\ \E f \in BooleanFields : ~Mappable(SentRow(t)[f])
AllInVocabulary(t) ==
    HasAllKeys(t) /\ \A f \in TextFields : InVocabulary(f, SentRow(t)[f])

\* C3: a boolean-like field that fails to map ends the request before the
\* encoder stage: no encoder lookup was made, and the error reported is the
\* boolean one even when a categorical value is outside its vocabulary.
C3_BooleanFailsBeforeEncoders ==
    \A t \in Threads(workload) :
        (Done(t) /\ UnmappableBoolean(t)) =>
            /\ Range(calls[t]) \cap EncoderCalls = {}
            /\ IsError(t, "VALIDATION_ERROR")
            /\ Body(t).error_message.text = BooleanMessage

\* C3 as amended: the encoder stage runs first.  A request with an unmappable
\* boolean-like value ends in 422 VALIDATION_ERROR without the predictor being
\* called; the boolean error is reported after all four encoder lookups were
\* made, in the order Region, Soil_Type, Crop, Weather_Condition, and only
\* when every categorical value is in its vocabulary; otherwise the error
\* reported is the categorical one.
C3_BooleanFailsAfterEncoders ==
    \A t \in Threads(workload) :
        (Done(t) /\ UnmappableBoolean(t)) =>
            /\ Status(t) = HTTP_UNPROCESSABLE
            /\ IsError(t, "VALIDATION_ERROR")
            /\ ~PredictorCalled(t)
            /\ IF AllInVocabulary(t)
               THEN /\ calls[t] = <<"transform_agricultural_input",
                                    "geographic_region_encoder.transform",
                                    "soil_type_encoder.transform",
                                    "crop_variety_encoder.transform",
                                    "weather_condition_encoder.transform">>
                    /\ Body(t).error_message.text = BooleanMessage
               ELSE Body(t).error_message.text = CategoricalMessage

C3_Witness ==
    \E t \in Threads(workload) :
        /\ Done(t)
        /\ UnmappableBoolean(t)
        /\ ~AllInVocabulary(t)
        /\ Body(t).error_message.text = CategoricalMessage

-----------------------------------------------------------------------------
(* C4 *)

EncodeStagePassed(t) ==
    pc[t] \in {"booleans", "assemble", "predict", "respond"}
        \/ (Done(t) /\ Len(calls[t]) >= 5)

\* C4: with all nine keys present, a Region, Soil_Type, Crop or
\* Weather_Condition that is outside its vocabulary after strip and title
\* gives 422 VALIDATION_ERROR and the predictor is never called; a value that
\* is a vocabulary entry after strip and title, whatever its case and the
\* whitespace around it, is encoded to that entry's integer.
C4_VocabularyDecidesEncoding ==
    \A t \in Threads(workload) :
        HasAllKeys(t) =>
            /\ ~AllInVocabulary(t) =>
                  /\ ~PredictorCalled(t)
                  /\ pc[t] \notin {"booleans", "assemble", "predict", "respond"}
                  /\ Done(t) => /\ Status(t) = HTTP_UNPROCESSABLE
                                /\ IsError(t, "VALIDATION_ERROR")
            /\ AllInVocabulary(t) =>
                  /\ Done(t) => EncodeStagePassed(t)
                  /\ EncodeStagePassed(t) =>
                        \A f \in TextFields :
                            /\ processed_dataframe[t].row[f] \in 0..(Len(ClassesOf(f)) - 1)
                            /\ ClassesOf(f)[processed_dataframe[t].row[f] + 1]
                                  = StrTitle(StrStrip(SentRow(t)[f]))

C4_Witness ==
    \E t \in Threads(workload) :
        /\ pc[t] = "booleans"
        /\ SentRow(t)["Crop"] = <<" ","S","O","Y","B","E","A","N">>
        /\ processed_dataframe[t].row["Crop"] = 3

-----------------------------------------------------------------------------
(* C5 *)

ListedTrue == {<<"t","r","u","e">>, <<"T","R","U","E">>, <<" ","T","r","u","e"," ">>}
ListedFalse == {<<"f","a","l","s","e">>, <<"F","A","L","S","E">>}
BooleanStagePassed(t) ==
    pc[t] \in {"assemble", "predict", "respond"} \/ (Done(t) /\ PredictorCalled(t))

\* C5: "true", "TRUE" and " True " become 1, "false" and "FALSE" become 0,
\* and any other string in Fertilizer_Used or Irrigation_Used ends the
\* request in VALIDATION_ERROR.
C5_OnlyListedStringsAccepted ==
    \A t \in Threads(workload) :
        (Done(t) /\ HasAllKeys(t)
            /\ \E f \in BooleanFields : SentRow(t)[f] \notin ListedTrue \cup ListedFalse)
        => IsError(t, "VALIDATION_ERROR")

\* C5 as amended: each boolean-like value is stripped and upper-cased; TRUE
\* becomes 1 and FALSE becomes 0 (so "true", "TRUE", " True " give 1 and
\* "false", "FALSE" give 0, as do "True", "False" or " false "); a string that
\* is neither TRUE nor FALSE after strip and upper-case ends the request in
\* 422 VALIDATION_ERROR and the predictor is not called.
C5_NormalizedBooleans ==
    \A t \in Threads(workload) :
        HasAllKeys(t) =>
            /\ UnmappableBoolean(t) =>
                  /\ ~BooleanStagePassed(t)
                  /\ Done(t) => Status(t) = HTTP_UNPROCESSABLE /\ IsError(t, "VALIDATION_ERROR")
            /\ (~UnmappableBoolean(t) /\ AllInVocabulary(t) /\ Done(t)) => PredictorCalled(t)
            /\ BooleanStagePassed(t) =>
                  \A f \in BooleanFields :
                      /\ SentRow(t)[f] \in ListedTrue => processed_dataframe[t].row[f] = 1
                      /\ SentRow(t)[f] \in ListedFalse => processed_dataframe[t].row[f] = 0
                      /\ processed_dataframe[t].row[f] =
                            (IF StrStrip(StrUpper(SentRow(t)[f])) = TRUEText THEN 1 ELSE 0)

C5_Witness ==
    \E t \in Threads(workload) :
        /\ pc[t] = "assemble"
        /\ SentRow(t)["Irrigation_Used"] = <<" ","T","r","u","e"," ">>
        /\ processed_dataframe[t].row["Irrigation_Used"] = 1

-----------------------------------------------------------------------------
(* C6 *)

\* C6: the confidence label is decided by max(0, raw) alone: up to 10
\* (negative raw values included, which are clamped to 0) it is High, above
\* 10 and up to 20 Medium, above 20 Low; 10 and 20 belong to the lower bucket.
C6_LabelOfClampedValue ==
    \A t \in Threads(workload) :
        IsSuccess(t) =>
            /\ raw_prediction_result[t] <= 100000 => Body(t).confidence_level = "High"
            /\ (100000 < raw_prediction_result[t] /\ raw_prediction_result[t] <= 200000)
                  => Body(t).confidence_level = "Medium"
            /\ 200000 < raw_prediction_result[t] => Body(t).confidence_level = "Low"

C6_Witness ==
    \E t \in Threads(workload) :
        /\ IsSuccess(t)
        /\ raw_prediction_result[t] < 0
        /\ Body(t).confidence_level = "High"
        /\ Body(t).predicted_yield_tons_per_hectare = 0

-----------------------------------------------------------------------------
(* C7 *)

\* C7: every response is one of five outcomes with its own status: the four
\* result fields with 200, MISSING_DATA with 400, MISSING_FIELDS with 400,
\* VALIDATION_ERROR with 422, PROCESSING_ERROR with 500; an error payload has
\* no yield and no label, and every exception raised inside the handler is
\* turned into one of the error payloads.
C7_FiveOutcomes ==
    \A t \in Threads(workload) :
        Done(t) =>
            \/ /\ Status(t) = 200
               /\ DOMAIN Body(t) = ResultKeys
               /\ Body(t).confidence_level \in {"High", "Medium", "Low"}
               /\ Body(t).predicted_yield_tons_per_hectare >= 0
            \/ /\ DOMAIN Body(t) = ErrorKeys
               /\ \/ Status(t) = 400 /\ Body(t).error_code = "MISSING_DATA"
                  \/ Status(t) = 400 /\ Body(t).error_code = "MISSING_FIELDS"
                  \/ Status(t) = 422 /\ Body(t).error_code = "VALIDATION_ERROR"
                  \/ Status(t) = 500 /\ Body(t).error_code = "PROCESSING_ERROR"

C7_Witness ==
    \E t \in Threads(workload) :
        /\ IsError(t, "PROCESSING_ERROR")
        /\ Status(t) = 500
        /\ PredictorCalled(t)

-----------------------------------------------------------------------------
(* C8 *)

\* what a request gets when it is the only one the process handles
SoloFrames(p) ==
    LET std == Standardized(NewDataFrame(p))
        enc == EncodeFrom(std, 1)
        boo == BoolStage(enc.df)
    IN  [encode |-> enc.raised.type, booleans |-> boo.raised.type,
         features |-> FeatureMatrix(boo.df)]
SoloCode(p) ==
    IF DOMAIN p.row = {} THEN "MISSING_DATA"
    ELSE IF ~(NineKeys \subseteq DOMAIN p.row) THEN "MISSING_FIELDS"
    ELSE IF SoloFrames(p).encode # "none" THEN "VALIDATION_ERROR"
    ELSE IF SoloFrames(p).booleans # "none" THEN "VALIDATION_ERROR"
    ELSE LET r == Predict(complete_model_data["model"], SoloFrames(p).features)
         IN  IF r.raised = "ValueError" THEN "VALIDATION_ERROR"
             ELSE IF r.raised # "none" THEN "PROCESSING_ERROR"
             ELSE "OK"
SoloValue(p) ==
    Clamped(Predict(complete_model_data["model"], SoloFrames(p).features).value)

SameAsAlone(t) ==
    /\ pc[t] \in {"predict", "respond"} =>
          processed_dataframe[t] = SoloFrames(agricultural_input_data[t]).features
    /\ pc[t] = "respond" => SoloCode(agricultural_input_data[t]) = "OK"
    /\ Done(t) =>
          IF SoloCode(agricultural_input_data[t]) = "OK"
          THEN /\ IsSuccess(t)
               /\ processed_dataframe[t] = SoloFrames(agricultural_input_data[t]).features
               /\ Body(t).predicted_yield_tons_per_hectare
                     \in Round3(SoloValue(agricultural_input_data[t]))
               /\ Body(t).confidence_level
                     = calculate_prediction_confidence(SoloValue(agricultural_input_data[t]))
          ELSE IsError(t, SoloCode(agricultural_input_data[t]))

Bound ==
    /\ complete_model_data \in Packages(workload)
    /\ trained_ml_model = complete_model_data["model"]
    /\ geographic_region_encoder = complete_model_data["region_encoder"]
    /\ soil_type_encoder = complete_model_data["soil_encoder"]
    /\ crop_variety_encoder = complete_model_data["crop_encoder"]
    /\ weather_condition_encoder = complete_model_data["weather_encoder"]

\* C8: the model and the encoder tables are written by the load alone, which
\* is over before a request is handled (after a failed load none ever is); no
\* step of a request changes them, and however the steps of concurrent
\* requests interleave each request gets the outcome it gets alone.
C8_LoadedOnceThenReadOnly ==
    /\ [](\A t \in Threads(workload) :
            /\ pc[t] # "idle" => server = "serving"
            /\ server = "serving" => Bound
            /\ server = "serving" => SameAsAlone(t))
    /\ [][/\ server # "starting" => UNCHANGED globals
          /\ server # "starting" => server' = server
          /\ server = "failed" => UNCHANGED locals]_vars

C8_Witness ==
    \E t \in Threads(workload), u \in Threads(workload) :
        /\ t # u
        /\ IsSuccess(t)
        /\ pc[u] \in {"encode", "booleans", "assemble"}
        /\ agricultural_input_data[t] # agricultural_input_data[u]

-----------------------------------------------------------------------------
(* C9 *)

TransformReturned(t) ==
    pc[t] \in {"predict", "respond"} \/ (Done(t) /\ PredictorCalled(t))

\* C9: when transform_agricultural_input succeeds its result has the nine
\* model columns and no other, in the model's order, and Rainfall_mm,
\* Temperature_Celsius and Days_to_Harvest are the request's values, also
\* when they are outside the declared ranges; the caller's mapping is left
\* as it was.
C9_FeatureVectorShape ==
    /\ [](\A t \in Threads(workload) :
            TransformReturned(t) =>
                /\ processed_dataframe[t].columns =
                      <<"Region", "Soil_Type", "Crop", "Rainfall_mm", "Temperature_Celsius",
                        "Fertilizer_Used", "Irrigation_Used", "Weather_Condition",
                        "Days_to_Harvest">>
                /\ DOMAIN processed_dataframe[t].row = NineKeys
                /\ \A f \in {"Rainfall_mm", "Temperature_Celsius", "Days_to_Harvest"} :
                      processed_dataframe[t].row[f] = SentRow(t)[f])
    /\ [][\A t \in Threads(workload) :
            pc[t] \in {"standardize", "encode", "booleans", "assemble"} =>
                agricultural_input_data'[t] = agricultural_input_data[t]]_vars

C9_Witness ==
    \E t \in Threads(workload) :
        /\ pc[t] = "predict"
        /\ agricultural_input_data[t].order[1] = "Notes"
        /\ processed_dataframe[t].row["Rainfall_mm"] < 0
        /\ processed_dataframe[t].row["Temperature_Celsius"] > 500
        /\ processed_dataframe[t].row["Days_to_Harvest"] > 365

-----------------------------------------------------------------------------
(* C10 *)

\* the thresholds applied to a value in units of 0.0001
Bucket(v) ==
    IF v <= 100000 THEN "High" ELSE IF v <= 200000 THEN "Medium" ELSE "Low"
Reported(t) == Body(t).predicted_yield_tons_per_hectare * 10

\* C10: in a success response the label is the bucket of the reported yield,
\* the clamped prediction rounded to three decimals, for every raw prediction.
C10_LabelOfReportedYield ==
    \A t \in Threads(workload) :
        IsSuccess(t) => Body(t).confidence_level = Bucket(Reported(t))

\* C10 as amended: the label is the bucket of the clamped prediction before
\* it is rounded.  It is the bucket of the reported yield too, unless the
\* clamped prediction lies above 10 and at most 10.0005, or above 20 and at
\* most 20.0005, where rounding may bring the reported yield down to 10 or 20.
C10_LabelOfUnroundedYield ==
    \A t \in Threads(workload) :
        IsSuccess(t) =>
            LET v == IF raw_prediction_result[t] > 0 THEN raw_prediction_result[t] ELSE 0
            IN  /\ Body(t).confidence_level = Bucket(v)
                /\ Reported(t) - v \in -5..5
                /\ (v \notin 100001..100005 /\ v \notin 200001..200005)
                      => Body(t).confidence_level = Bucket(Reported(t))

C10_Witness ==
    \E t \in Threads(workload) :
        /\ IsSuccess(t)
        /\ raw_prediction_result[t] = 200004
        /\ Body(t).confidence_level = "Low"
        /\ Bucket(Reported(t)) = "Medium"

====
